---- MODULE Spec2Model ----
(***************************************************************************)
(* Model of seedlib::URL (src/src/url_impl.hpp, src/src/include/seedlib/   *)
(* url.hpp): the two regular expressions of the grammar, the URLImpl       *)
(* constructor, URL::parse, URL::validate, URL::set_scheme, URL::set_port, *)
(* URL::to_string and URL::is_secure.                                      *)
(*                                                                         *)
(* A std::string is a sequence of one-character strings.  All characters   *)
(* are ASCII; "\n" stands for a line terminator.                           *)
(***************************************************************************)
EXTENDS Integers, Sequences, FiniteSets, TLC

VARIABLES input, url, valid, op, arg, err, str, re, nmut

vars == <<input, url, valid, op, arg, err, str, re, nmut>>

-----------------------------------------------------------------------------
(* Bounds of the model.                                                    *)

\* longest text of the exhaustively enumerated inputs
MaxLen == 2

\* most mutator calls (set_scheme / set_port) applied to one URL value
MaxOps == 2

-----------------------------------------------------------------------------
(* Characters and strings.                                                 *)

UpperChars == <<"A","B","C","D","E","F","G","H","I","J","K","L","M",
                "N","O","P","Q","R","S","T","U","V","W","X","Y","Z">>

LowerChars == <<"a","b","c","d","e","f","g","h","i","j","k","l","m",
                "n","o","p","q","r","s","t","u","v","w","x","y","z">>

DigitChars == <<"0","1","2","3","4","5","6","7","8","9">>

Range(f) == {f[i] : i \in DOMAIN f}

\* ::tolower on one character ("C" locale)
tolower(c) ==
    IF \E i \in 1..26 : UpperChars[i] = c
    THEN LowerChars[CHOOSE i \in 1..26 : UpperChars[i] = c]
    ELSE c

\* std::transform(s.begin(), s.end(), s.begin(), ::tolower)
transform_tolower(s) == [i \in 1..Len(s) |-> tolower(s[i])]

\* std::isalpha on one character ("C" locale)
isalpha(c) == c \in Range(UpperChars) \cup Range(LowerChars)

DigitValue(c) == (CHOOSE i \in 1..10 : DigitChars[i] = c) - 1

\* std::stoi on a string of decimal digits
RECURSIVE stoi(_)
stoi(s) ==
    IF s = <<>> THEN 0
    ELSE 10 * stoi(SubSeq(s, 1, Len(s) - 1)) + DigitValue(s[Len(s)])

\* operator<< of an unsigned integer into a stream: its decimal digits
RECURSIVE Decimal(_)
Decimal(n) ==
    IF n < 10 THEN <<DigitChars[n + 1]>>
    ELSE Decimal(n \div 10) \o <<DigitChars[(n % 10) + 1]>>

\* conversion of an int to uint16_t
UInt16(n) == n % 65536

\* length of the longest run of characters from position i on that are not in stop
RECURSIVE RunLen(_, _, _)
RunLen(s, i, stop) ==
    IF i > Len(s) \/ s[i] \in stop THEN 0
    ELSE 1 + RunLen(s, i + 1, stop)

\* length of the longest run of characters from position i on that are in set
RECURSIVE RunIn(_, _, _)
RunIn(s, i, set) ==
    IF i > Len(s) \/ s[i] \notin set THEN 0
    ELSE 1 + RunIn(s, i + 1, set)

Sub(s, i, n) == SubSeq(s, i, i + n - 1)

CharAt(s, i) == IF i >= 1 /\ i <= Len(s) THEN s[i] ELSE "<end>"

-----------------------------------------------------------------------------
(* The grammar.                                                            *)

LineTerminators == {"\n", "\r"}

\* The sub-matches of url_regex,
\*   ^(([^:/?#]+):)?(//([^/?#]*))?([^?#]*)(\?([^#]*))?(#(.*))?
\* are found group by group from the left: every class is greedy and is
\* followed by a character outside the class, so the leftmost-greedy match
\* is the only candidate.  m2, m4, ... are match[2], match[4], ...; has3
\* tells whether group 3 took part; pos is where the next group starts.

\* (([^:/?#]+):)?
url_regex_scheme(s, n) ==
    IF n >= 1 /\ CharAt(s, n + 1) = ":"
    THEN [m2 |-> Sub(s, 1, n), pos |-> n + 2]
    ELSE [m2 |-> <<>>, pos |-> 1]

\* (//([^/?#]*))?
url_regex_authority(s, m, n) ==
    IF CharAt(s, m.pos) = "/" /\ CharAt(s, m.pos + 1) = "/"
    THEN [m2 |-> m.m2, has3 |-> TRUE, m4 |-> Sub(s, m.pos + 2, n),
          pos |-> m.pos + 2 + n]
    ELSE [m2 |-> m.m2, has3 |-> FALSE, m4 |-> <<>>, pos |-> m.pos]

\* ([^?#]*)
url_regex_path(s, m, n) ==
    [m2 |-> m.m2, has3 |-> m.has3, m4 |-> m.m4, m5 |-> Sub(s, m.pos, n),
     pos |-> m.pos + n]

\* (\?([^#]*))?
url_regex_query(s, m, n) ==
    IF CharAt(s, m.pos) = "?"
    THEN [m2 |-> m.m2, has3 |-> m.has3, m4 |-> m.m4, m5 |-> m.m5,
          m7 |-> Sub(s, m.pos + 1, n), pos |-> m.pos + 1 + n]
    ELSE [m2 |-> m.m2, has3 |-> m.has3, m4 |-> m.m4, m5 |-> m.m5,
          m7 |-> <<>>, pos |-> m.pos]

\* (#(.*))? and the end of the text; "." matches no line terminator
url_regex_fragment(s, m, n) ==
    IF CharAt(s, m.pos) = "#"
    THEN [matched |-> m.pos + 1 + n = Len(s) + 1,
          m2 |-> m.m2, has3 |-> m.has3, m4 |-> m.m4, m5 |-> m.m5, m7 |-> m.m7,
          m9 |-> Sub(s, m.pos + 1, n)]
    ELSE [matched |-> m.pos = Len(s) + 1,
          m2 |-> m.m2, has3 |-> m.has3, m4 |-> m.m4, m5 |-> m.m5, m7 |-> m.m7,
          m9 |-> <<>>]

url_regex_2(s, m) ==
    url_regex_authority(s, m, RunLen(s, m.pos + 2, {"/", "?", "#"}))

url_regex_3(s, m) == url_regex_path(s, m, RunLen(s, m.pos, {"?", "#"}))

url_regex_4(s, m) == url_regex_query(s, m, RunLen(s, m.pos + 1, {"#"}))

url_regex_5(s, m) ==
    url_regex_fragment(s, m, RunLen(s, m.pos + 1, LineTerminators))

\* std::regex_match(url, match, url_regex)
url_regex(s) ==
    url_regex_5(s, url_regex_4(s, url_regex_3(s, url_regex_2(s,
        url_regex_scheme(s, RunLen(s, 1, {":", "/", "?", "#"}))))))

\* the tail of authority_regex from the host on, tried at position hs:
\*   (\[[^]\]+\]|[^:]+)(?::(\d{1,5}))?$
\* "[^]" is the empty negated class (any character), so the first
\* alternative is "[", one character, then two or more "]".
AuthorityTail(a, hs) ==
    LET \* (?::(\d{1,5}))?$ tried at position e
        PortAt(e) ==
            LET nd == RunIn(a, e + 1, Range(DigitChars))
            IN  IF e = Len(a) + 1
                THEN [matched |-> TRUE, m4 |-> <<>>]
                ELSE IF CharAt(a, e) = ":" /\ nd >= 1 /\ nd <= 5
                        /\ e + nd = Len(a)
                     THEN [matched |-> TRUE, m4 |-> Sub(a, e + 1, nd)]
                     ELSE [matched |-> FALSE, m4 |-> <<>>]
        nb   == RunIn(a, hs + 2, {"]"})
        alt1 == CharAt(a, hs) = "[" /\ hs + 1 <= Len(a) /\ nb >= 2
        e1   == hs + 2 + nb
        n2   == RunLen(a, hs, {":"})
        e2   == hs + n2
    IN  IF alt1 /\ PortAt(e1).matched
        THEN [matched |-> TRUE, m3 |-> Sub(a, hs, 2 + nb), m4 |-> PortAt(e1).m4]
        ELSE IF n2 >= 1 /\ PortAt(e2).matched
             THEN [matched |-> TRUE, m3 |-> Sub(a, hs, n2), m4 |-> PortAt(e2).m4]
             ELSE [matched |-> FALSE, m3 |-> <<>>, m4 |-> <<>>]

\* std::regex_match(authority, auth_match, authority_regex):
\*   ^(?:([^@:]*)(?::([^@]*))?@)?(\[[^]\]+\]|[^:]+)(?::(\d{1,5}))?$
\* The userinfo group is tried first (user = the longest run without "@"
\* and ":", then ":password" up to the first "@", or "@" at once); when the
\* rest does not match after it, the match is retried without the group.
authority_regex(a) ==
    LET nu    == RunLen(a, 1, {"@", ":"})
        npw   == RunLen(a, nu + 2, {"@"})
        withP == CharAt(a, nu + 1) = ":" /\ CharAt(a, nu + 2 + npw) = "@"
        noP   == CharAt(a, nu + 1) = "@"
        hs    == IF withP THEN nu + 3 + npw ELSE nu + 2
    IN  IF (withP \/ noP) /\ AuthorityTail(a, hs).matched
        THEN AuthorityTail(a, hs)
        ELSE AuthorityTail(a, 1)

-----------------------------------------------------------------------------
(* URLImpl and URL.                                                        *)

\* default_ports with the entry of "ws" left out
default_ports_without_ws ==
    [s \in {<<"h","t","t","p">>, <<"h","t","t","p","s">>,
            <<"w","s","s">>, <<"f","t","p">>} |->
        CASE s = <<"h","t","t","p">>     -> 80
          [] s = <<"h","t","t","p","s">> -> 443
          [] s = <<"w","s","s">>         -> 443
          [] s = <<"f","t","p">>         -> 21]

\* default_ports: known schemes and their default ports
default_ports ==
    [s \in {<<"h","t","t","p">>, <<"h","t","t","p","s">>, <<"w","s">>,
            <<"w","s","s">>, <<"f","t","p">>} |->
        CASE s = <<"h","t","t","p">>     -> 80
          [] s = <<"h","t","t","p","s">> -> 443
          [] s = <<"w","s">>             -> 80
          [] s = <<"w","s","s">>         -> 443
          [] s = <<"f","t","p">>         -> 21]

\* the members of URLImpl as its member initialisers leave them
EmptyImpl ==
    [scheme |-> <<>>, host |-> <<>>, port |-> 0,
     path |-> <<>>, query |-> <<>>, fragment |-> <<>>]

Thrown(type, what) == [thrown |-> type, what |-> what, impl |-> EmptyImpl]

Constructed(impl) == [thrown |-> "", what |-> "", impl |-> impl]

\* URLImpl::URLImpl(const std::string& url): the object constructed, or the
\* exception that leaves the constructor
URLImpl(text) ==
    LET match     == url_regex(text)
        scheme    == transform_tolower(match.m2)
        authority == match.m4
        auth      == authority_regex(authority)
        port_str  == auth.m4
        \* port = std::stoi(port_str): an int stored into a uint16_t
        port      == UInt16(stoi(port_str))
        \* path = match[5].length() ? match[5] : "/"
        tail      == [path     |-> IF Len(match.m5) # 0 THEN match.m5 ELSE <<"/">>,
                      query    |-> match.m7,
                      fragment |-> match.m9]
    IN  IF ~match.matched
        THEN Thrown("URLParseError", "Invalid URL format")
        ELSE IF authority = <<>>
        THEN Constructed([scheme |-> scheme, host |-> <<>>, port |-> 0] @@ tail)
        ELSE IF ~auth.matched
        THEN Thrown("URLParseError", "Invalid authority component")
        ELSE IF port_str # <<>>
        THEN IF port > 65535
             \* thrown inside the try block and replaced by its handler
             THEN Thrown("URLParseError", "Invalid port number")
             ELSE Constructed([scheme |-> scheme, host |-> auth.m3,
                               port |-> port] @@ tail)
        ELSE IF scheme \in DOMAIN default_ports
        THEN Constructed([scheme |-> scheme, host |-> auth.m3,
                          port |-> default_ports[scheme]] @@ tail)
        ELSE Constructed([scheme |-> scheme, host |-> auth.m3, port |-> 0] @@ tail)

\* std::nullopt
nullopt == [has_value |-> FALSE]

\* an engaged std::optional<URL>
Some(impl) == [has_value |-> TRUE, impl |-> impl]

\* URL::parse: the optional returned and the exception that reaches the caller
parse(text) ==
    LET c == URLImpl(text)
    IN  IF c.thrown = "" THEN [ret |-> Some(c.impl), raised |-> ""]
        ELSE IF c.thrown = "URLParseError" THEN [ret |-> nullopt, raised |-> ""]
        ELSE [ret |-> nullopt, raised |-> c.thrown]

\* URL::validate: the ValidationResult returned and the exception that
\* reaches the caller.  The statement "URLImpl impl(std::string(url));" in
\* its try block declares a function impl with a parameter url of type
\* std::string (a declaration wherever the grammar allows one): no URLImpl
\* is constructed from the text, nothing can throw, and {true, ""} is
\* returned.
validate(text) ==
    [ret |-> [valid |-> TRUE, reason |-> ""], raised |-> ""]

\* set_scheme storing its argument as given, the lower-casing forgotten
set_scheme_keeps_case(impl, scheme) ==
    IF scheme = <<>> \/ ~isalpha(scheme[1])
    THEN [impl |-> impl, raised |-> "URLValidationError"]
    ELSE [impl |-> [impl EXCEPT !.scheme = scheme], raised |-> ""]

\* URL::set_scheme: the members afterwards and the exception thrown
set_scheme(impl, scheme) ==
    LET scheme_str == transform_tolower(scheme)
    IN  IF scheme_str = <<>> \/ ~isalpha(scheme_str[1])
        THEN [impl |-> impl, raised |-> "URLValidationError"]
        ELSE [impl |-> [impl EXCEPT !.scheme = scheme_str], raised |-> ""]

\* set_port with the check for 0 forgotten
set_port_unchecked(impl, n) ==
    [impl |-> [impl EXCEPT !.port = UInt16(n)], raised |-> ""]

\* URL::set_port(uint16_t port): the caller's integer is converted to the
\* parameter type before the body runs
set_port(impl, n) ==
    LET port == UInt16(n)
    IN  IF port = 0
        THEN [impl |-> impl, raised |-> "URLValidationError"]
        ELSE [impl |-> [impl EXCEPT !.port = port], raised |-> ""]

\* to_string with the comparison against the default port forgotten
to_string_every_port(impl) ==
    impl.scheme \o <<":", "/", "/">> \o impl.host
    \o (IF impl.port # 0 THEN <<":">> \o Decimal(impl.port) ELSE <<>>)
    \o impl.path
    \o (IF impl.query # <<>> THEN <<"?">> \o impl.query ELSE <<>>)
    \o (IF impl.fragment # <<>> THEN <<"#">> \o impl.fragment ELSE <<>>)

\* URL::to_string
to_string(impl) ==
    impl.scheme \o <<":", "/", "/">> \o impl.host
    \o (IF impl.port # 0
           /\ (impl.scheme \notin DOMAIN default_ports
               \/ default_ports[impl.scheme] # impl.port)
        THEN <<":">> \o Decimal(impl.port)
        ELSE <<>>)
    \o impl.path
    \o (IF impl.query # <<>> THEN <<"?">> \o impl.query ELSE <<>>)
    \o (IF impl.fragment # <<>> THEN <<"#">> \o impl.fragment ELSE <<>>)

\* URL::is_secure
is_secure(impl) ==
    impl.scheme = <<"h","t","t","p","s">> \/ impl.scheme = <<"w","s","s">>

-----------------------------------------------------------------------------
(* The texts and arguments the calls are made with.                        *)

\* characters of the exhaustively enumerated inputs
Sigma == {"w", ":", "/", "?", "#", "@", "8", "\n"}

\* every text over Sigma of at most MaxLen characters
ShortTexts == UNION {[1..n -> Sigma] : n \in 0..MaxLen}

SchemeTexts == {<<>>, <<"w","s",":">>, <<"W","s",":">>, <<"x",":">>}

AuthorityTexts ==
    {<<>>,
     <<"/","/">>,
     <<"/","/","h">>,
     <<"/","/","h",":","0">>,
     <<"/","/","h",":","8","0">>,
     <<"/","/","h",":","6","5","5","3","5">>,
     <<"/","/","h",":","6","5","5","3","6">>,
     <<"/","/","h",":","6","5","6","1","6">>,
     <<"/","/","h",":","1","2","3","4","5","6">>,
     <<"/","/","h",":","8","x">>,
     <<"/","/","u","@","h">>,
     <<"/","/","u",":","p","@","h",":","8">>,
     <<"/","/","a","@","b","@","h">>,
     <<"/","/","[","a","b","c">>,
     <<"/","/","[","z","]">>,
     <<"/","/","[","z","]","]",":","8">>,
     <<"/","/","[",":",":","1","]">>}

PathTexts == {<<>>, <<"/","p">>, <<"p"," ","q">>}

QueryTexts == {<<>>, <<"?","q">>}

FragmentTexts == {<<>>, <<"#","\n">>}

\* texts put together from the parts of the grammar
ComposedTexts ==
    {s \o a \o p \o q \o f :
        s \in SchemeTexts, a \in AuthorityTexts, p \in PathTexts,
        q \in QueryTexts, f \in FragmentTexts}

\* the texts of tests/url_test.cpp
TestTexts ==
    {<<"h","t","t","p","s",":","/","/","e","x","a","m","p","l","e",".","c","o","m",
       ":","8","0","8","0","/","p","a","t","h","?","q","u","e","r","y",
       "#","f","r","a","g","m","e","n","t">>,
     <<"n","o","t"," ","a"," ","u","r","l">>,
     <<"h","t","t","p",":","/","/">>,
     <<":","/","/","e","x","a","m","p","l","e",".","c","o","m">>,
     <<"h","t","t","p","s",":","/","/","e","x","a","m","p","l","e",".","c","o","m">>,
     <<"h","t","t","p",":","/","/","[","i","n","v","a","l","i","d","]">>,
     <<"h","t","t","p",":","/","/","e","x","a","m","p","l","e",".","c","o","m">>,
     <<"h","t","t","p","s",":","/","/","e","x","a","m","p","l","e",".","c","o","m",
       "/","p","a","t","h">>}

Inputs == ShortTexts \cup ComposedTexts \cup TestTexts

\* arguments of set_scheme
SchemeArgs ==
    {<<>>, <<"9","a","b","c">>, <<"W","S","S">>,
     <<"n","o","t","-","a","-","s","c","h","e","m","e">>, <<"a",":","/">>}

\* arguments of set_port, as the caller writes them
PortArgs == {0, 1, 443, 8080, 65535, 65536}

-----------------------------------------------------------------------------
(* The calls.                                                              *)

Init ==
    /\ input \in Inputs
    /\ url = nullopt
    /\ valid = [valid |-> FALSE, reason |-> ""]
    /\ op = "init"
    /\ arg = <<>>
    /\ err = ""
    /\ str = <<>>
    /\ re = nullopt
    /\ nmut = 0

\* auto url = URL::parse(input)
Parse ==
    /\ op = "init"
    /\ url' = parse(input).ret
    /\ err' = parse(input).raised
    /\ op' = "parse"
    /\ arg' = input
    /\ UNCHANGED <<input, valid, str, re, nmut>>

\* auto result = URL::validate(input), on the text just given to parse;
\* the last call of a run
Validate ==
    /\ op = "parse"
    /\ valid' = validate(input).ret
    /\ err' = validate(input).raised
    /\ op' = "validate"
    /\ arg' = input
    /\ UNCHANGED <<input, url, str, re, nmut>>

\* the URL value can be called
Ready ==
    /\ url.has_value
    /\ op \in {"parse", "set_scheme", "set_port", "to_string"}

\* url.set_scheme(s)
SetScheme(s) ==
    /\ Ready
    /\ nmut < MaxOps
    /\ url' = Some(set_scheme(url.impl, s).impl)
    /\ err' = set_scheme(url.impl, s).raised
    /\ op' = "set_scheme"
    /\ arg' = s
    /\ nmut' = nmut + 1
    /\ UNCHANGED <<input, valid, str, re>>

\* url.set_port(p)
SetPort(p) ==
    /\ Ready
    /\ nmut < MaxOps
    /\ url' = Some(set_port(url.impl, p).impl)
    /\ err' = set_port(url.impl, p).raised
    /\ op' = "set_port"
    /\ arg' = p
    /\ nmut' = nmut + 1
    /\ UNCHANGED <<input, valid, str, re>>

\* auto str = url.to_string()
Serialize ==
    /\ Ready
    /\ op # "to_string"
    /\ str' = to_string(url.impl)
    /\ err' = ""
    /\ op' = "to_string"
    /\ arg' = <<>>
    /\ UNCHANGED <<input, url, valid, re, nmut>>

\* auto reparsed = URL::parse(str)
Reparse ==
    /\ op = "to_string"
    /\ re' = parse(str).ret
    /\ err' = parse(str).raised
    /\ op' = "reparse"
    /\ arg' = str
    /\ UNCHANGED <<input, url, valid, str, nmut>>

Next ==
    \/ Parse
    \/ Validate
    \/ \E s \in SchemeArgs : SetScheme(s)
    \/ \E p \in PortArgs : SetPort(p)
    \/ Serialize
    \/ Reparse

Spec == Init /\ [][Next]_vars

-----------------------------------------------------------------------------
(* What the claims speak about.                                            *)

\* the scheme of a text: what precedes its first ":" when that comes before
\* any "/", "?" and "#"
SchemeOf(t) == url_regex(t).m2

\* the authority of a text: what follows "//" up to the next "/", "?" or "#"
AuthorityOf(t) == url_regex(t).m4

\* the text has "//" where an authority starts
HasSlashes(t) == url_regex(t).has3

\* the explicit port of a text of the grammar: the 1 to 5 decimal digits
\* after the last ":" of its authority, <<>> when it has none
ExplicitPortOf(t) ==
    IF url_regex(t).matched /\ AuthorityOf(t) # <<>>
       /\ authority_regex(AuthorityOf(t)).matched
    THEN authority_regex(AuthorityOf(t)).m4
    ELSE <<>>

\* the default-port table as the specification gives it
TableSchemes ==
    {<<"h","t","t","p">>, <<"h","t","t","p","s">>, <<"w","s">>,
     <<"w","s","s">>, <<"f","t","p">>}

TablePort(s) ==
    IF s \in {<<"h","t","t","p">>, <<"w","s">>} THEN 80
    ELSE IF s \in {<<"h","t","t","p","s">>, <<"w","s","s">>} THEN 443
    ELSE 21

\* parse has returned for the input
Parsed == op \in {"parse", "validate"}

-----------------------------------------------------------------------------
(* C1 *)

\* C1: round-trip stability.  For every input parse accepts, with u the
\* value parsed, parse(u.to_string()) succeeds and the reparsed value's
\* to_string() equals u.to_string().
RoundTripStable ==
    (op = "reparse" /\ nmut = 0)
        => (re.has_value /\ to_string(re.impl) = str)

-----------------------------------------------------------------------------
(* C2 *)

\* C2: port range at parse time.  For every input whose authority carries an
\* explicit port of 1 to 5 digits, parse fails (and validate reports
\* valid = FALSE) when the decimal value is above 65535, and otherwise
\* succeeds with port() equal to exactly that value.
PortRangeAtParse ==
    (Parsed /\ ExplicitPortOf(input) # <<>>)
        => IF stoi(ExplicitPortOf(input)) > 65535
           THEN ~url.has_value /\ (op = "validate" => ~valid.valid)
           ELSE url.has_value /\ url.impl.port = stoi(ExplicitPortOf(input))

-----------------------------------------------------------------------------
(* C3 *)

\* C3: parse returns no value for every input that has neither a scheme nor
\* an authority, and validate reports valid = FALSE for it.
NoSchemeNoAuthorityRejected ==
    (Parsed /\ SchemeOf(input) = <<>> /\ AuthorityOf(input) = <<>>)
        => (~url.has_value /\ (op = "validate" => ~valid.valid))

-----------------------------------------------------------------------------
(* C4 *)

\* C4: parse returns no value for every input that has a scheme followed by
\* "//" and an empty authority.
SchemeWithEmptyAuthorityRejected ==
    (Parsed /\ SchemeOf(input) # <<>> /\ HasSlashes(input)
        /\ AuthorityOf(input) = <<>>)
        => ~url.has_value

-----------------------------------------------------------------------------
(* C5 *)

\* C5 as stated: for every accepted input with no explicit port, port() is
\* the table value of the lower-cased scheme when the table has it, whether
\* or not the input has an authority, and 0 when the table does not have it.
DefaultPortInference ==
    (op = "parse" /\ url.has_value /\ ExplicitPortOf(input) = <<>>)
        => url.impl.port =
              (IF transform_tolower(SchemeOf(input)) \in TableSchemes
               THEN TablePort(transform_tolower(SchemeOf(input)))
               ELSE 0)

\* C5 as amended: for every accepted input with no explicit port, port() is
\* the table value of the lower-cased scheme when the input has a non-empty
\* authority and the table has the scheme, and 0 when the input has no
\* authority or the table does not have the scheme.
DefaultPortInferenceWithAuthority ==
    (op = "parse" /\ url.has_value /\ ExplicitPortOf(input) = <<>>)
        => url.impl.port =
              (IF AuthorityOf(input) # <<>>
                  /\ transform_tolower(SchemeOf(input)) \in TableSchemes
               THEN TablePort(transform_tolower(SchemeOf(input)))
               ELSE 0)

\* "Ws://h" has been parsed: the port is the default of "ws"
DefaultPortInferred ==
    /\ op = "parse"
    /\ url.has_value
    /\ SchemeOf(input) = <<"W","s">>
    /\ AuthorityOf(input) = <<"h">>
    /\ url.impl.port = 80

-----------------------------------------------------------------------------
(* C6 *)

\* the ":port" segment the claim expects in the text of a value
ExpectedPortSegment(impl) ==
    IF impl.port # 0
       /\ (impl.scheme \notin TableSchemes \/ TablePort(impl.scheme) # impl.port)
    THEN <<":">> \o Decimal(impl.port)
    ELSE <<>>

\* the text s with its first n characters dropped
Drop(s, n) == SubSeq(s, n + 1, Len(s))

\* the text s starts with the text q
StartsWith(s, q) == Len(s) >= Len(q) /\ SubSeq(s, 1, Len(q)) = q

\* C6: after a successful parse and any sequence of set_scheme and set_port
\* calls, the text of to_string() has, between the host and the path, the
\* segment ":port" exactly when port # 0 and the table entry of the current
\* scheme is absent or differs from the port, and nothing otherwise.
PortSegmentRule ==
    op = "to_string"
        => LET impl == url.impl
               head == impl.scheme \o <<":", "/", "/">> \o impl.host
               seg  == ExpectedPortSegment(impl)
               rest == impl.path
                       \o (IF impl.query # <<>> THEN <<"?">> \o impl.query ELSE <<>>)
                       \o (IF impl.fragment # <<>> THEN <<"#">> \o impl.fragment
                           ELSE <<>>)
           IN  /\ StartsWith(str, head)
               /\ StartsWith(Drop(str, Len(head)), seg)
               /\ Drop(str, Len(head) + Len(seg)) = rest

\* "ws://h..." was parsed with port 80, which its text did not show; after
\* set_scheme alone changed the scheme, to_string() shows ":80"
SetSchemeTurnsPortOn ==
    /\ op = "to_string"
    /\ nmut >= 1
    /\ SchemeOf(input) = <<"w","s">>
    /\ ExplicitPortOf(input) = <<>>
    /\ url.impl.port = 80
    /\ url.impl.scheme = <<"w","s","s">>
    /\ StartsWith(str, <<"w","s","s",":","/","/","h",":","8","0","/">>)

-----------------------------------------------------------------------------
(* C7 *)

\* C7: set_port(0) fails with a validation error and leaves every component
\* unchanged; set_port(p) for p in 1..65535 succeeds, port() = p afterwards
\* and the other components are unchanged; the argument 65536 is rejected
\* with a validation error.
SetPortContract ==
    [][op' = "set_port" =>
          IF arg' \in {0, 65536}
          THEN err' = "URLValidationError" /\ url' = url
          ELSE arg' \in 1..65535 =>
                  /\ err' = ""
                  /\ url'.has_value
                  /\ url'.impl = [url.impl EXCEPT !.port = arg']
      ]_vars

\* set_port(8080) has succeeded on a URL parsed with another port, and then
\* set_port(0) has failed and left 8080
SetPortZeroRejected ==
    /\ op = "set_port"
    /\ arg = 0
    /\ err = "URLValidationError"
    /\ nmut = 2
    /\ url.impl.port = 8080

-----------------------------------------------------------------------------
(* C8 *)

-----------------------------------------------------------------------------
(* C9 *)

\* C9: validate(text).valid holds exactly when parse(text) yields a value,
\* reason is empty when valid and non-empty when not, and neither call
\* raises.
ValidateAgreesWithParse ==
    /\ op = "parse" => err = ""
    /\ op = "validate" =>
          /\ err = ""
          /\ valid.valid <=> url.has_value
          /\ valid.valid <=> (valid.reason = "")

-----------------------------------------------------------------------------
(* C10 *)

HexChars ==
    {"0","1","2","3","4","5","6","7","8","9",
     "a","b","c","d","e","f","A","B","C","D","E","F"}

\* the authority starts a bracketed literal that is not "[" hexadecimal
\* groups with ":" "]": the bracket is never closed, or something other
\* than hexadecimal digits, ":" and "." stands in it
MalformedBracketHost(t) ==
    LET a == AuthorityOf(t)
        n == RunLen(a, 2, {"]"})
    IN  /\ a # <<>>
        /\ a[1] = "["
        /\ \/ n + 2 > Len(a)
           \/ \E i \in 2..(n + 1) : a[i] \notin HexChars \cup {":", "."}
           \/ \A i \in 2..(n + 1) : a[i] # ":"

\* C10: for every input whose authority host is a malformed bracketed
\* literal, validate returns valid = FALSE and parse returns no value.
MalformedBracketRejected ==
    (Parsed /\ MalformedBracketHost(input))
        => (~url.has_value /\ (op = "validate" => ~valid.valid))

-----------------------------------------------------------------------------
(* C11 *)

\* the characters that separate the parts of a URL
SeparatorChars == {":", "/", "?", "#"}

\* a plain scheme token: a letter followed by letters and digits
PlainSchemeToken(s) ==
    /\ s # <<>>
    /\ s[1] \in Range(UpperChars) \cup Range(LowerChars)
    /\ \A i \in 1..Len(s) :
          s[i] \in Range(UpperChars) \cup Range(LowerChars) \cup Range(DigitChars)

\* C11: set_scheme rejects with a validation error every argument that is
\* not a plain scheme token (such as "not-a-scheme", or a text with ":",
\* "/", "?" or "#"), so that after parse and any sequence of set_scheme and
\* set_port calls scheme() is lower-case and has none of those separators.
SchemeIsPlainToken ==
    /\ (op = "set_scheme" /\ ~PlainSchemeToken(arg))
          => err = "URLValidationError"
    /\ url.has_value
          => \A i \in 1..Len(url.impl.scheme) :
                /\ url.impl.scheme[i] \notin SeparatorChars
                /\ url.impl.scheme[i] \notin Range(UpperChars)

====
